---- MODULE Spec2Model ----
(***************************************************************************)
(* BitServe (src/app.py): the lifecycle and admission-control layer of a   *)
(* torrent manager.  The state is the SQLite table `torrents`, the         *)
(* directory of stored .torrent files, the in-memory map torrents_actifs,  *)
(* the libtorrent session, the wall clock, and the position and locals of  *)
(* every running request handler.  Each statement of a handler that        *)
(* touches shared state is one step; the program counter forces a handler  *)
(* to run all its steps in order.                                          *)
(***************************************************************************)
EXTENDS Integers, Sequences, FiniteSets, TLC

\* ------------------------------------------------------------------ bounds
MaxCapacity == 2       \* MAX_ACTIVE_TORRENTS is drawn from 1..MaxCapacity
NumWorkers == 2        \* concurrently running request handlers (SpecConc)
MaxBytes == 1          \* the engine counters of a torrent are followed up to MaxBytes

\* --------------------------------------------------------------- universes
Ids == {"A", "B", "C"}             \* info hashes
Contents == {"torrent"}               \* the bytes of an uploaded .torrent file
Procs == 1..NumWorkers
NoFile == "nofile"
None == [none |-> TRUE]
NoHandle == <<"nohandle", 0>>

VARIABLES
    db,               \* table torrents: sequence of rows in rowid order
    files,            \* torrent_files_dir: info_hash -> stored bytes or NoFile
    torrents_actifs,  \* info_hash -> handle (a function on a subset of Ids)
    session,          \* libtorrent session: live handle -> its status counters
    downloads,        \* downloads_path: the info hashes whose payload is on disk
    clock,            \* the last value time() returned
    MAX_ACTIVE_TORRENTS,
    running,          \* the application process is up (startup has completed)
    proc,             \* per handler: pc, operation, arguments, locals, response
    history,          \* history variable: the adds completed since a first start
    was_resident,     \* history variable: the keys of the map when the process ended
    before            \* history variable: the resident ids, next victim first, when
                      \* the resume or shutdown under way began

vars == <<db, files, torrents_actifs, session, downloads, clock, MAX_ACTIVE_TORRENTS, running,
          proc, history, was_resident, before>>

\* ------------------------------------------------------------ the database
\* name of a torrent: info_obj.name(), a function of the descriptor
NameOf(h) == "name_" \o h

NewRow(h, t) ==
    [info_hash |-> h, name |-> NameOf(h), total_uploaded |-> 0, total_downloaded |-> 0,
     last_access |-> t, active |-> 1]

RowIndex(d, h) ==
    IF \E i \in 1..Len(d) : d[i].info_hash = h
    THEN CHOOSE i \in 1..Len(d) : d[i].info_hash = h
    ELSE 0

Known(d, h) == RowIndex(d, h) # 0

\* db_get_torrent: the row, or None
db_get_torrent(d, h) == IF Known(d, h) THEN d[RowIndex(d, h)] ELSE None

\* db_insert_torrent: INSERT with last_access = time(), active = 1; an
\* IntegrityError (primary key present) is swallowed
db_insert_torrent(d, h, t) == IF Known(d, h) THEN d ELSE Append(d, NewRow(h, t))

\* db_update_torrent_stats: UPDATE ... WHERE info_hash = ? (no row: no effect)
db_update_torrent_stats(d, h, up, down) ==
    [i \in 1..Len(d) |->
        IF d[i].info_hash = h
        THEN [d[i] EXCEPT !.total_uploaded = up, !.total_downloaded = down]
        ELSE d[i]]

\* db_update_torrent_access: last_access = time(), active = ?
db_update_torrent_access(d, h, t, a) ==
    [i \in 1..Len(d) |->
        IF d[i].info_hash = h
        THEN [d[i] EXCEPT !.last_access = t, !.active = a]
        ELSE d[i]]

RECURSIVE SeqFilterOut(_, _)
SeqFilterOut(d, h) ==
    IF d = <<>> THEN <<>>
    ELSE IF Head(d).info_hash = h THEN SeqFilterOut(Tail(d), h)
    ELSE <<Head(d)>> \o SeqFilterOut(Tail(d), h)

\* db_delete_torrent
db_delete_torrent(d, h) == SeqFilterOut(d, h)

RECURSIVE ActiveHashes(_)
ActiveHashes(d) ==
    IF d = <<>> THEN <<>>
    ELSE IF Head(d).active = 1 THEN <<Head(d).info_hash>> \o ActiveHashes(Tail(d))
    ELSE ActiveHashes(Tail(d))

\* db_list_active_torrents: SELECT info_hash WHERE active = 1, a table scan
\* in rowid order
db_list_active_torrents(d) == ActiveHashes(d)

\* sorted(list, key = last_access): Python's sort is stable, so equal keys
\* keep the list's (rowid) order.  Insertion of x after every element with
\* key <= key(x).
\* (variant: descending keys, the most recently used item first)
RECURSIVE InsertByKeyNewestFirst(_, _, _)
InsertByKeyNewestFirst(sorted, x, d) ==
    IF sorted = <<>> THEN <<x>>
    ELSE IF db_get_torrent(d, Head(sorted)).last_access >= db_get_torrent(d, x).last_access
         THEN <<Head(sorted)>> \o InsertByKeyNewestFirst(Tail(sorted), x, d)
         ELSE <<x>> \o sorted

RECURSIVE InsertByKey(_, _, _)
InsertByKey(sorted, x, d) ==
    IF sorted = <<>> THEN <<x>>
    ELSE IF db_get_torrent(d, Head(sorted)).last_access <= db_get_torrent(d, x).last_access
         THEN <<Head(sorted)>> \o InsertByKey(Tail(sorted), x, d)
         ELSE <<x>> \o sorted

RECURSIVE SortedByAccess(_, _)
SortedByAccess(list, d) ==
    IF list = <<>> THEN <<>>
    ELSE InsertByKey(SortedByAccess(SubSeq(list, 1, Len(list) - 1), d), list[Len(list)], d)

\* ------------------------------------------------------------- the engine
\* A handle is <<info_hash, k>>.  A freshly created torrent object gets the
\* smallest k no live torrent, map entry or handler local still refers to.
Referenced ==
    DOMAIN session
        \cup {torrents_actifs[h] : h \in DOMAIN torrents_actifs}
        \cup {proc[p].handle : p \in Procs}

FreshHandle(h) ==
    <<h, CHOOSE k \in 0..(2 * NumWorkers + 2) :
            /\ <<h, k>> \notin Referenced
            /\ \A j \in 0..(k - 1) : <<h, j>> \in Referenced>>

ZeroStatus == [total_upload |-> 0, total_done |-> 0]

\* the torrent of info_hash h that is live in the session, if any
LiveOf(h) == {x \in DOMAIN session : x[1] = h}

\* session.add_torrent({'ti': info, 'save_path': ...}) when it succeeds: a
\* new torrent whose counters start at 0; for an info hash already in the
\* session libtorrent hands back the existing torrent's handle
session_add_torrent(h) ==
    IF LiveOf(h) # {}
    THEN [handle |-> CHOOSE x \in LiveOf(h) : TRUE, session |-> session]
    ELSE [handle |-> FreshHandle(h),
          session |-> [x \in DOMAIN session \cup {FreshHandle(h)} |->
                          IF x \in DOMAIN session THEN session[x] ELSE ZeroStatus]]

\* session.remove_torrent(handle, ...): the torrent leaves the session (an
\* invalid handle removes nothing)
session_remove_torrent(x) == [y \in DOMAIN session \ {x} |-> session[y]]

\* ---------------------------------------------------------------- handlers
IdleProc ==
    [pc |-> "idle", op |-> "none", info_hash |-> "-", remove_files |-> FALSE,
     contents |-> NoFile, record |-> None, handle |-> NoHandle,
     active_list |-> <<>>, target |-> "-", active_hashes |-> <<>>, todo |-> <<>>,
     load_failed |-> FALSE, response |-> "none"]

AllIdle == \A q \in Procs : proc[q].pc = "idle"

\* add_torrents and remove_torrents are coroutines of the one event loop and
\* never await between their first and last statement
LoopHandler(q) == proc[q].pc # "idle" /\ proc[q].op \in {"add", "remove"}
LoopFree == \A q \in Procs : ~LoopHandler(q)

\* time(): the clock never runs backwards; two calls may return the same value
Now == {clock, clock + 1}

\* The code reads a last_access only to compare it with another (the sort key
\* of ensure_memory_limit), so timestamps are kept as ranks: after a write the
\* values of the table and the clock are renumbered 0, 1, 2, ... with their
\* order and their ties unchanged.
Ranked(d, c) ==
    LET V == {d[i].last_access : i \in 1..Len(d)} \cup {c}
        rank(v) == Cardinality({u \in V : u < v})
    IN [db |-> [i \in 1..Len(d) |-> [d[i] EXCEPT !.last_access = rank(@)]],
        clock |-> rank(c)]

\* a statement that calls time(), getting t, and writes the table: d is the
\* table written
Stamped(d, t) ==
    /\ db' = Ranked(d, t).db
    /\ clock' = Ranked(d, t).clock

\* history: <<h1, ..., hn>> when the application was started on an empty table
\* and has since then completed add_torrents for h1, ..., hn, each with a
\* successful load, and nothing else; <<"removed", h>> when the last request
\* was a remove_torrents that reported h removed, <<"removed", h, "resume">>
\* when the resume of h has followed it at once; <<"paused", h>> when the last
\* request was a pause of h that paused it, <<"paused", h, "pause">> when a
\* second pause of h has followed it at once; Void otherwise
Void == <<"-">>

AddsOnly(hist) == \A i \in 1..Len(hist) : hist[i] \in Ids

HistoryAfter(old, new) ==
    CASE new.op = "startup" -> IF db = <<>> THEN <<>> ELSE Void
      [] new.op = "add" /\ new.pc # "idle" /\ AddsOnly(history) -> history
      [] /\ old.op = "add" /\ old.pc \in {"eml_list", "pt_db"} /\ new.pc = "idle"
         /\ AddsOnly(history) -> Append(history, old.info_hash)
      [] new.op = "remove" /\ new.pc = "idle" /\ new.response = "removed"
            -> <<"removed", new.info_hash>>
      [] new.op = "resume" /\ new.pc = "idle" /\ history = <<"removed", new.info_hash>>
            -> <<"removed", new.info_hash, "resume">>
      [] new.op = "pause" /\ new.pc = "idle" /\ new.response = "ok"
            -> <<"paused", new.info_hash>>
      [] /\ new.op = "pause" /\ new.pc = "idle" /\ new.response # "ok"
         /\ history = <<"paused", new.info_hash>>
            -> <<"paused", new.info_hash, "pause">>
      [] OTHER -> Void

\* was_resident: set when shutdown_event returns, kept until the next startup
\* has completed
ResidentAfter(old, new) ==
    CASE old.pc = "sd_loop" /\ new.pc = "idle" -> DOMAIN torrents_actifs
      [] old.op = "startup" /\ new.pc = "idle" -> {}
      [] OTHER -> was_resident

\* the keys of torrents_actifs in the order ensure_memory_limit would pause
\* them: by last_access, ties by rowid
ResidentOrder ==
    SortedByAccess(SelectSeq([i \in 1..Len(db) |-> db[i].info_hash],
                             LAMBDA h : h \in DOMAIN torrents_actifs), db)

\* before: set when a resume or a shutdown begins, kept until that resume, or
\* the startup that follows that shutdown, has returned
BeforeAfter(old, new) ==
    CASE old.pc = "idle" /\ new.op \in {"resume", "shutdown"} /\ new.pc # "idle"
            -> ResidentOrder
      [] old.pc # "idle" /\ new.op = "resume" /\ new.pc # "idle" -> before
      [] old.pc # "idle" /\ new.op = "shutdown" -> before
      [] new.op = "startup" /\ new.pc # "idle" -> before
      [] OTHER -> <<>>

\* handler p moves to pr
Set(p, pr) ==
    /\ proc' = [proc EXCEPT ![p] = pr]
    /\ history' = HistoryAfter(proc[p], pr)
    /\ was_resident' = ResidentAfter(proc[p], pr)
    /\ before' = BeforeAfter(proc[p], pr)

\* the handler returns: its locals die, its response is kept
Finish(pr, resp) ==
    [IdleProc EXCEPT !.op = pr.op, !.info_hash = pr.info_hash, !.response = resp]

\* ------------------------------------------- ensure_memory_limit, pause_torrent
\* where control goes when ensure_memory_limit returns to its caller
ReturnFromEnsure(pr) ==
    CASE pr.op = "add" -> Finish(pr, "success")
      [] pr.op = "resume" -> Finish(pr, "ok")
      [] OTHER -> [pr EXCEPT !.pc = "s_loop", !.todo = Tail(pr.todo), !.info_hash = "-",
                             !.record = None, !.handle = NoHandle, !.active_list = <<>>,
                             !.target = "-"]

\* (variant: the loop tolerates one item more than the limit)
WhileTooManyLenient(pr) ==
    IF Len(pr.active_list) > MAX_ACTIVE_TORRENTS + 1
    THEN [pr EXCEPT !.pc = "pt_in", !.target = Head(pr.active_list)]
    ELSE ReturnFromEnsure(pr)

\* while len(active_list) > MAX_ACTIVE_TORRENTS: oldest_hash = active_list[0]
WhileTooMany(pr) ==
    IF Len(pr.active_list) > MAX_ACTIVE_TORRENTS
    THEN [pr EXCEPT !.pc = "pt_in", !.target = Head(pr.active_list)]
    ELSE ReturnFromEnsure(pr)

\* active_list = sorted(db_list_active_torrents(),
\*                      key=lambda h: db_get_torrent(h)["last_access"])
EnsureList(p) ==
    /\ proc[p].pc = "eml_list"
    /\ Set(p, WhileTooMany([proc[p] EXCEPT
            !.active_list = SortedByAccess(db_list_active_torrents(db), db)]))
    /\ UNCHANGED <<db, files, torrents_actifs, session, downloads, clock, MAX_ACTIVE_TORRENTS, running>>

\* pause_torrent: if info_hash in torrents_actifs: handle = torrents_actifs[info_hash]
PauseGet(p) ==
    /\ proc[p].pc = "pt_in"
    /\ IF proc[p].target \in DOMAIN torrents_actifs
       THEN Set(p, [proc[p] EXCEPT !.pc = "pt_remove",
                                   !.handle = torrents_actifs[proc[p].target]])
       ELSE Set(p, [proc[p] EXCEPT !.pc = "pt_db"])
    /\ UNCHANGED <<db, files, torrents_actifs, session, downloads, clock, MAX_ACTIVE_TORRENTS, running>>

\* (variant: the engine is asked to delete the payload as well)
PauseRemoveDeletesFiles(p) ==
    /\ proc[p].pc = "pt_remove"
    /\ session' = session_remove_torrent(proc[p].handle)
    /\ downloads' = downloads \ {proc[p].target}
    /\ Set(p, [proc[p] EXCEPT !.pc = "pt_pop"])
    /\ UNCHANGED <<db, files, torrents_actifs, clock, MAX_ACTIVE_TORRENTS, running>>

\* session.remove_torrent(handle, False)
PauseRemove(p) ==
    /\ proc[p].pc = "pt_remove"
    /\ session' = session_remove_torrent(proc[p].handle)
    /\ Set(p, [proc[p] EXCEPT !.pc = "pt_pop"])
    /\ UNCHANGED <<db, files, torrents_actifs, downloads, clock, MAX_ACTIVE_TORRENTS, running>>

\* (variant: the key is left in the map)
PausePopKeepsKey(p) ==
    /\ proc[p].pc = "pt_pop"
    /\ torrents_actifs' = torrents_actifs
    /\ Set(p, [proc[p] EXCEPT !.pc = "pt_db", !.handle = NoHandle])
    /\ UNCHANGED <<db, files, session, downloads, clock, MAX_ACTIVE_TORRENTS, running>>

\* torrents_actifs.pop(info_hash, None)
PausePop(p) ==
    /\ proc[p].pc = "pt_pop"
    /\ torrents_actifs' = [h \in DOMAIN torrents_actifs \ {proc[p].target} |-> torrents_actifs[h]]
    /\ Set(p, [proc[p] EXCEPT !.pc = "pt_db", !.handle = NoHandle])
    /\ UNCHANGED <<db, files, session, downloads, clock, MAX_ACTIVE_TORRENTS, running>>

\* db_update_torrent_access(info_hash, active=0); then back to the caller:
\* the pause endpoint answers, ensure_memory_limit pops the head and loops
PauseDb(p) ==
    /\ proc[p].pc = "pt_db"
    /\ \E t \in Now : Stamped(db_update_torrent_access(db, proc[p].target, t, 0), t)
    /\ IF proc[p].op = "pause"
       THEN Set(p, Finish(proc[p], "ok"))
       ELSE Set(p, WhileTooMany([proc[p] EXCEPT !.active_list = Tail(proc[p].active_list),
                                                !.target = "-"]))
    /\ UNCHANGED <<files, torrents_actifs, session, downloads, MAX_ACTIVE_TORRENTS, running>>

\* ------------------------------------------------------ add_torrent_from_file
\* where control goes when add_torrent_from_file returns without having
\* reached ensure_memory_limit (its except clause logged the error)
ReturnFromAddFile(pr) ==
    IF pr.op = "add" THEN Finish(pr, "success") ELSE ReturnFromEnsure(pr)

\* total_uploaded / total_downloaded arguments: the row's values at startup,
\* the defaults 0, 0 in add_torrents
StatsArg(pr) ==
    IF pr.record = None THEN <<0, 0>>
    ELSE <<pr.record.total_uploaded, pr.record.total_downloaded>>

\* open(file_path), lt.bdecode, lt.torrent_info, session.add_torrent: any of
\* them may raise (always when the file is gone); the except clause logs it
AddFileLoad(p) ==
    /\ proc[p].pc = "atf_load"
    /\ \/ /\ files[proc[p].info_hash] # NoFile
          /\ session' = session_add_torrent(proc[p].info_hash).session
          /\ Set(p, [proc[p] EXCEPT !.pc = "atf_set",
                                    !.handle = session_add_torrent(proc[p].info_hash).handle])
       \/ /\ session' = session
          /\ Set(p, ReturnFromAddFile([proc[p] EXCEPT !.load_failed = TRUE]))
    /\ UNCHANGED <<db, files, torrents_actifs, downloads, clock, MAX_ACTIVE_TORRENTS, running>>

\* torrents_actifs[info_hash] = handle
AddFileSet(p) ==
    /\ proc[p].pc = "atf_set"
    /\ torrents_actifs' =
         [h \in DOMAIN torrents_actifs \cup {proc[p].info_hash} |->
            IF h = proc[p].info_hash THEN proc[p].handle ELSE torrents_actifs[h]]
    /\ Set(p, [proc[p] EXCEPT !.pc = "atf_stats", !.handle = NoHandle])
    /\ UNCHANGED <<db, files, session, downloads, clock, MAX_ACTIVE_TORRENTS, running>>

\* db_update_torrent_stats(info_hash, total_uploaded, total_downloaded)
AddFileStats(p) ==
    /\ proc[p].pc = "atf_stats"
    /\ db' = db_update_torrent_stats(db, proc[p].info_hash,
                                     StatsArg(proc[p])[1], StatsArg(proc[p])[2])
    /\ Set(p, [proc[p] EXCEPT !.pc = "atf_access"])
    /\ UNCHANGED <<files, torrents_actifs, session, downloads, clock, MAX_ACTIVE_TORRENTS, running>>

\* db_update_torrent_access(info_hash, active=1); ensure_memory_limit() follows
AddFileAccess(p) ==
    /\ proc[p].pc = "atf_access"
    /\ \E t \in Now : Stamped(db_update_torrent_access(db, proc[p].info_hash, t, 1), t)
    /\ Set(p, [proc[p] EXCEPT !.pc = "eml_list"])
    /\ UNCHANGED <<files, torrents_actifs, session, downloads, MAX_ACTIVE_TORRENTS, running>>

\* ---------------------------------------------------------------- add_torrents
\* a file with a MIME type that is not allowed, or one lt.bdecode /
\* lt.torrent_info rejects: a per-item error, nothing else
AddInvalid(p) ==
    /\ running /\ proc[p].pc = "idle" /\ LoopFree
    /\ Set(p, [IdleProc EXCEPT !.op = "add", !.response = "error_invalid"])
    /\ UNCHANGED <<db, files, torrents_actifs, session, downloads, clock, MAX_ACTIVE_TORRENTS, running>>

\* (variant: no duplicate check, every upload is stored and activated)
AddCheckNoDuplicateTest(p, h, c) ==
    /\ running /\ proc[p].pc = "idle" /\ LoopFree
    /\ Set(p, [IdleProc EXCEPT !.op = "add", !.info_hash = h, !.contents = c,
                               !.pc = "add_write"])
    /\ UNCHANGED <<db, files, torrents_actifs, session, downloads, clock, MAX_ACTIVE_TORRENTS, running>>

\* process_torrent_file up to the duplicate check: existing = db_get_torrent
AddCheck(p, h, c) ==
    /\ running /\ proc[p].pc = "idle" /\ LoopFree
    /\ IF db_get_torrent(db, h) # None
       THEN Set(p, [IdleProc EXCEPT !.op = "add", !.info_hash = h,
                                    !.response = "error_exists"])
       ELSE Set(p, [IdleProc EXCEPT !.op = "add", !.info_hash = h, !.contents = c,
                                    !.pc = "add_write"])
    /\ UNCHANGED <<db, files, torrents_actifs, session, downloads, clock, MAX_ACTIVE_TORRENTS, running>>

\* (variant: the .torrent file is not written before the row is inserted)
AddWriteDeferred(p) ==
    /\ proc[p].pc = "add_write"
    /\ files' = files
    /\ Set(p, [proc[p] EXCEPT !.pc = "add_insert"])
    /\ UNCHANGED <<db, torrents_actifs, session, downloads, clock, MAX_ACTIVE_TORRENTS, running>>

\* with open(torrent_path, 'wb') as tf: tf.write(contents)
AddWrite(p) ==
    /\ proc[p].pc = "add_write"
    /\ files' = [files EXCEPT ![proc[p].info_hash] = proc[p].contents]
    /\ Set(p, [proc[p] EXCEPT !.pc = "add_insert"])
    /\ UNCHANGED <<db, torrents_actifs, session, downloads, clock, MAX_ACTIVE_TORRENTS, running>>

\* db_insert_torrent(info_hash, info_obj.name()); add_torrent_from_file follows
AddInsert(p) ==
    /\ proc[p].pc = "add_insert"
    /\ \E t \in Now : Stamped(db_insert_torrent(db, proc[p].info_hash, t), t)
    /\ Set(p, [proc[p] EXCEPT !.pc = "atf_load"])
    /\ UNCHANGED <<files, torrents_actifs, session, downloads, MAX_ACTIVE_TORRENTS, running>>

\* ------------------------------------------------------------- resume_torrent
\* resume_torrent_endpoint -> resume_torrent: record = db_get_torrent(info_hash)
ResumeGet(p, h) ==
    /\ running /\ proc[p].pc = "idle"
    /\ IF db_get_torrent(db, h) = None
       THEN Set(p, [IdleProc EXCEPT !.op = "resume", !.info_hash = h,
                                    !.response = "error_404"])
       ELSE Set(p, [IdleProc EXCEPT !.op = "resume", !.info_hash = h, !.pc = "rs_check",
                                    !.record = db_get_torrent(db, h)])
    /\ UNCHANGED <<db, files, torrents_actifs, session, downloads, clock, MAX_ACTIVE_TORRENTS, running>>

\* (variant: the test for the .torrent file is missing)
ResumeCheckIgnoresMissingFile(p) ==
    /\ proc[p].pc = "rs_check"
    /\ Set(p, CASE proc[p].record.active = 1 /\ proc[p].info_hash \in DOMAIN torrents_actifs ->
                     [proc[p] EXCEPT !.pc = "rs_touch"]
                [] OTHER -> [proc[p] EXCEPT !.pc = "rs_load"])
    /\ UNCHANGED <<db, files, torrents_actifs, session, downloads, clock, MAX_ACTIVE_TORRENTS, running>>

\* if record["active"] == 1 and info_hash in torrents_actifs: already active;
\* else if not os.path.exists(torrent_file_path): raise HTTPException(404)
ResumeCheck(p) ==
    /\ proc[p].pc = "rs_check"
    /\ Set(p, CASE proc[p].record.active = 1 /\ proc[p].info_hash \in DOMAIN torrents_actifs ->
                     [proc[p] EXCEPT !.pc = "rs_touch"]
                [] files[proc[p].info_hash] = NoFile -> Finish(proc[p], "error_404")
                [] OTHER -> [proc[p] EXCEPT !.pc = "rs_load"])
    /\ UNCHANGED <<db, files, torrents_actifs, session, downloads, clock, MAX_ACTIVE_TORRENTS, running>>

\* already active: db_update_torrent_access(info_hash, active=1); return
ResumeTouch(p) ==
    /\ proc[p].pc = "rs_touch"
    /\ \E t \in Now : Stamped(db_update_torrent_access(db, proc[p].info_hash, t, 1), t)
    /\ Set(p, [proc[p] EXCEPT !.pc = "eml_list"])
    /\ UNCHANGED <<files, torrents_actifs, session, downloads, MAX_ACTIVE_TORRENTS, running>>

\* the try block up to session.add_torrent; an exception is logged and
\* resume_torrent returns normally
ResumeLoad(p) ==
    /\ proc[p].pc = "rs_load"
    /\ \/ /\ files[proc[p].info_hash] # NoFile
          /\ session' = session_add_torrent(proc[p].info_hash).session
          /\ Set(p, [proc[p] EXCEPT !.pc = "rs_set",
                                    !.handle = session_add_torrent(proc[p].info_hash).handle])
       \/ /\ session' = session
          /\ Set(p, [proc[p] EXCEPT !.pc = "eml_list", !.load_failed = TRUE])
    /\ UNCHANGED <<db, files, torrents_actifs, downloads, clock, MAX_ACTIVE_TORRENTS, running>>

\* torrents_actifs[info_hash] = handle
ResumeSet(p) ==
    /\ proc[p].pc = "rs_set"
    /\ torrents_actifs' =
         [h \in DOMAIN torrents_actifs \cup {proc[p].info_hash} |->
            IF h = proc[p].info_hash THEN proc[p].handle ELSE torrents_actifs[h]]
    /\ Set(p, [proc[p] EXCEPT !.pc = "rs_access", !.handle = NoHandle])
    /\ UNCHANGED <<db, files, session, downloads, clock, MAX_ACTIVE_TORRENTS, running>>

\* db_update_torrent_access(info_hash, active=1); the endpoint then calls
\* ensure_memory_limit()
ResumeAccess(p) ==
    /\ proc[p].pc = "rs_access"
    /\ \E t \in Now : Stamped(db_update_torrent_access(db, proc[p].info_hash, t, 1), t)
    /\ Set(p, [proc[p] EXCEPT !.pc = "eml_list"])
    /\ UNCHANGED <<files, torrents_actifs, session, downloads, MAX_ACTIVE_TORRENTS, running>>

\* ------------------------------------------------------ pause_torrent_endpoint
\* (variant: the test for an inactive row is missing)
PauseEndpointNoInactiveTest(p, h) ==
    /\ running /\ proc[p].pc = "idle"
    /\ Set(p, IF db_get_torrent(db, h) = None
              THEN [IdleProc EXCEPT !.op = "pause", !.info_hash = h, !.response = "error_404"]
              ELSE [IdleProc EXCEPT !.op = "pause", !.info_hash = h, !.pc = "pt_in",
                                    !.target = h])
    /\ UNCHANGED <<db, files, torrents_actifs, session, downloads, clock, MAX_ACTIVE_TORRENTS, running>>

\* record = db_get_torrent(info_hash): 404 without a row, "Deja inactif" for
\* an inactive row, pause_torrent(info_hash) otherwise
PauseEndpoint(p, h) ==
    /\ running /\ proc[p].pc = "idle"
    /\ Set(p, CASE db_get_torrent(db, h) = None ->
                     [IdleProc EXCEPT !.op = "pause", !.info_hash = h, !.response = "error_404"]
                [] db_get_torrent(db, h) # None /\ db_get_torrent(db, h).active = 0 ->
                     [IdleProc EXCEPT !.op = "pause", !.info_hash = h,
                                      !.response = "already_inactive"]
                [] OTHER ->
                     [IdleProc EXCEPT !.op = "pause", !.info_hash = h, !.pc = "pt_in",
                                      !.target = h])
    /\ UNCHANGED <<db, files, torrents_actifs, session, downloads, clock, MAX_ACTIVE_TORRENTS, running>>

\* ------------------------------------------------------------- remove_torrents
\* one info_hash of the request: record = db_get_torrent(info_hash); an
\* unknown hash goes to not_found
RemoveGet(p, h, rf) ==
    /\ running /\ proc[p].pc = "idle" /\ LoopFree
    /\ IF db_get_torrent(db, h) = None
       THEN Set(p, [IdleProc EXCEPT !.op = "remove", !.info_hash = h, !.remove_files = rf,
                                    !.response = "not_found"])
       ELSE Set(p, [IdleProc EXCEPT !.op = "remove", !.info_hash = h, !.remove_files = rf,
                                    !.pc = "rm_in", !.record = db_get_torrent(db, h)])
    /\ UNCHANGED <<db, files, torrents_actifs, session, downloads, clock, MAX_ACTIVE_TORRENTS, running>>

\* if info_hash in torrents_actifs: handle = torrents_actifs[info_hash]
RemoveHandle(p) ==
    /\ proc[p].pc = "rm_in"
    /\ IF proc[p].info_hash \in DOMAIN torrents_actifs
       THEN Set(p, [proc[p] EXCEPT !.pc = "rm_remove",
                                   !.handle = torrents_actifs[proc[p].info_hash]])
       ELSE Set(p, [proc[p] EXCEPT !.pc = "rm_file"])
    /\ UNCHANGED <<db, files, torrents_actifs, session, downloads, clock, MAX_ACTIVE_TORRENTS, running>>

\* session.remove_torrent(handle, request.remove_files): with remove_files
\* the engine deletes the payload of a torrent it still holds
RemoveSession(p) ==
    /\ proc[p].pc = "rm_remove"
    /\ session' = session_remove_torrent(proc[p].handle)
    /\ downloads' = IF proc[p].remove_files /\ proc[p].handle \in DOMAIN session
                    THEN downloads \ {proc[p].info_hash} ELSE downloads
    /\ Set(p, [proc[p] EXCEPT !.pc = "rm_pop"])
    /\ UNCHANGED <<db, files, torrents_actifs, clock, MAX_ACTIVE_TORRENTS, running>>

\* torrents_actifs.pop(info_hash, None)
RemovePop(p) ==
    /\ proc[p].pc = "rm_pop"
    /\ torrents_actifs' = [h \in DOMAIN torrents_actifs \ {proc[p].info_hash} |-> torrents_actifs[h]]
    /\ Set(p, [proc[p] EXCEPT !.pc = "rm_file", !.handle = NoHandle])
    /\ UNCHANGED <<db, files, session, downloads, clock, MAX_ACTIVE_TORRENTS, running>>

\* if os.path.exists(tpath): os.remove(tpath); then, if request.remove_files
\* and record["name"] is a real name: shutil.rmtree(downloads/name)
RemoveFile(p) ==
    /\ proc[p].pc = "rm_file"
    /\ files' = [files EXCEPT ![proc[p].info_hash] = NoFile]
    /\ downloads' = IF proc[p].remove_files /\ proc[p].record.name # "Unknown"
                    THEN downloads \ {proc[p].info_hash} ELSE downloads
    /\ Set(p, [proc[p] EXCEPT !.pc = "rm_db"])
    /\ UNCHANGED <<db, torrents_actifs, session, clock, MAX_ACTIVE_TORRENTS, running>>

\* (variant: the row is reported removed but stays in the table)
RemoveDbKeepsRow(p) ==
    /\ proc[p].pc = "rm_db"
    /\ db' = db
    /\ Set(p, Finish(proc[p], "removed"))
    /\ UNCHANGED <<files, torrents_actifs, session, downloads, clock, MAX_ACTIVE_TORRENTS, running>>

\* db_delete_torrent(info_hash); removed.append(info_hash)
RemoveDb(p) ==
    /\ proc[p].pc = "rm_db"
    /\ db' = db_delete_torrent(db, proc[p].info_hash)
    /\ Set(p, Finish(proc[p], "removed"))
    /\ UNCHANGED <<files, torrents_actifs, session, downloads, clock, MAX_ACTIVE_TORRENTS, running>>

\* ------------------------------------------------------------- startup_event
\* (variant: the loop over active_hashes starts at the second hash)
StartupListSkipsFirst(p) ==
    /\ ~running /\ AllIdle
    /\ Set(p, [IdleProc EXCEPT !.op = "startup", !.pc = "s_loop",
                               !.active_hashes = db_list_active_torrents(db),
                               !.todo = IF db_list_active_torrents(db) = <<>> THEN <<>>
                                        ELSE Tail(db_list_active_torrents(db))])
    /\ UNCHANGED <<db, files, torrents_actifs, session, downloads, clock, MAX_ACTIVE_TORRENTS, running>>

\* a new process: init_db(), load_session_state(),
\* active_hashes = db_list_active_torrents()
StartupList(p) ==
    /\ ~running /\ AllIdle
    /\ Set(p, [IdleProc EXCEPT !.op = "startup", !.pc = "s_loop",
                               !.active_hashes = db_list_active_torrents(db),
                               !.todo = db_list_active_torrents(db)])
    /\ UNCHANGED <<db, files, torrents_actifs, session, downloads, clock, MAX_ACTIVE_TORRENTS, running>>

\* for h in active_hashes: record = db_get_torrent(h); if the .torrent file
\* exists call add_torrent_from_file, else log a warning.  After the last
\* hash the application serves requests.
StartupNext(p) ==
    /\ proc[p].pc = "s_loop"
    /\ IF proc[p].todo = <<>>
       THEN /\ running' = TRUE
            /\ Set(p, Finish(proc[p], "started"))
       ELSE /\ running' = running
            /\ IF /\ db_get_torrent(db, Head(proc[p].todo)) # None
                  /\ files[Head(proc[p].todo)] # NoFile
               THEN Set(p, [proc[p] EXCEPT !.pc = "atf_load",
                                           !.info_hash = Head(proc[p].todo),
                                           !.record = db_get_torrent(db, Head(proc[p].todo))])
               ELSE Set(p, [proc[p] EXCEPT !.todo = Tail(proc[p].todo)])
    /\ UNCHANGED <<db, files, torrents_actifs, session, downloads, clock, MAX_ACTIVE_TORRENTS>>

\* ------------------------------------------------------------ shutdown_event
\* the orders in which a dict of these keys can be iterated
Orders(S) == {o \in [1..Cardinality(S) -> S] : \A i, j \in 1..Cardinality(S) : i # j => o[i] # o[j]}

\* save_session_state(); then the loop over torrents_actifs.copy().items()
ShutdownCopy(p) ==
    /\ running /\ AllIdle
    /\ \E o \in Orders(DOMAIN torrents_actifs) :
          Set(p, [IdleProc EXCEPT !.op = "shutdown", !.pc = "sd_loop", !.todo = o])
    /\ UNCHANGED <<db, files, torrents_actifs, session, downloads, clock, MAX_ACTIVE_TORRENTS, running>>

\* st = handle.status(); db_update_torrent_stats(info_hash, st.total_upload,
\* st.total_done).  After the last handle the process ends: its memory (the
\* map, the session's torrents) is gone.
ShutdownFlush(p) ==
    /\ proc[p].pc = "sd_loop"
    /\ IF proc[p].todo = <<>>
       THEN /\ running' = FALSE
            /\ torrents_actifs' = <<>>
            /\ session' = <<>>
            /\ db' = db
            /\ Set(p, Finish(proc[p], "stopped"))
       ELSE /\ db' = db_update_torrent_stats(db, Head(proc[p].todo),
                        session[torrents_actifs[Head(proc[p].todo)]].total_upload,
                        session[torrents_actifs[Head(proc[p].todo)]].total_done)
            /\ Set(p, [proc[p] EXCEPT !.todo = Tail(proc[p].todo)])
            /\ UNCHANGED <<running, torrents_actifs, session>>
    /\ UNCHANGED <<files, downloads, clock, MAX_ACTIVE_TORRENTS>>

\* the process ends in the middle of shutdown_event: handle.status() raised
\* (the loop has no try), the remaining torrents are not flushed
ShutdownStatusFails(p) ==
    /\ proc[p].pc = "sd_loop"
    /\ proc[p].todo # <<>>
    /\ running' = FALSE
    /\ torrents_actifs' = <<>>
    /\ session' = <<>>
    /\ Set(p, Finish(proc[p], "failed"))
    /\ UNCHANGED <<db, files, downloads, clock, MAX_ACTIVE_TORRENTS>>

\* ------------------------------------------------------------ the environment
\* the engine transfers data for a torrent of the session, between two
\* operations: one of its counters grows; downloaded data is on disk
EngineProgress(x) ==
    /\ AllIdle /\ running
    /\ x \in DOMAIN session
    /\ \/ /\ session[x].total_upload < MaxBytes
          /\ session' = [session EXCEPT ![x].total_upload = @ + 1]
          /\ downloads' = downloads
       \/ /\ session[x].total_done < MaxBytes
          /\ session' = [session EXCEPT ![x].total_done = @ + 1]
          /\ downloads' = downloads \cup {x[1]}
    /\ UNCHANGED <<db, files, torrents_actifs, clock, MAX_ACTIVE_TORRENTS, running,
                   proc, history, was_resident, before>>

\* a stored .torrent file disappears from torrent_files_dir, between two
\* operations or while the application is down: the case startup_event and
\* resume_torrent test for with os.path.exists
TorrentFileLost(h) ==
    /\ AllIdle
    /\ files[h] # NoFile
    /\ files' = [files EXCEPT ![h] = NoFile]
    /\ history' = Void
    /\ UNCHANGED <<db, torrents_actifs, session, downloads, clock, MAX_ACTIVE_TORRENTS, running,
                   proc, was_resident, before>>

\* -------------------------------------------------------------- specification
\* before the first start: an empty table, no stored file, no process
Init ==
    /\ db = <<>>
    /\ files = [h \in Ids |-> NoFile]
    /\ torrents_actifs = <<>>
    /\ session = <<>>
    /\ downloads = {}
    /\ clock = 0
    /\ MAX_ACTIVE_TORRENTS \in 1..MaxCapacity
    /\ running = FALSE
    /\ proc = [p \in Procs |-> IdleProc]
    /\ history = Void
    /\ was_resident = {}
    /\ before = <<>>

\* the statements of a request handler that is under way
ContinueRequest(p) ==
    \/ EnsureList(p)
    \/ PauseGet(p) \/ PauseRemove(p) \/ PausePop(p) \/ PauseDb(p)
    \/ AddFileLoad(p) \/ AddFileSet(p) \/ AddFileStats(p) \/ AddFileAccess(p)
    \/ AddWrite(p) \/ AddInsert(p)
    \/ ResumeCheck(p) \/ ResumeTouch(p) \/ ResumeLoad(p)
    \/ ResumeSet(p) \/ ResumeAccess(p)
    \/ RemoveHandle(p) \/ RemoveSession(p) \/ RemovePop(p)
    \/ RemoveFile(p) \/ RemoveDb(p)

Continue(p) == ContinueRequest(p) \/ StartupNext(p) \/ ShutdownFlush(p)

\* a request arrives and its handler runs its first statement
Request(p) ==
    \/ AddInvalid(p)
    \/ \E h \in Ids, c \in Contents : AddCheck(p, h, c)
    \/ \E h \in Ids : ResumeGet(p, h)
    \/ \E h \in Ids : PauseEndpoint(p, h)
    \/ \E h \in Ids, rf \in BOOLEAN : RemoveGet(p, h, rf)

\* operations executed one at a time, each run to completion
Next ==
    \/ AllIdle /\ (Request(1) \/ StartupList(1) \/ ShutdownCopy(1))
    \/ Continue(1)
    \/ \E h \in Ids : TorrentFileLost(h)

Spec == Init /\ [][Next]_vars

\* ------------------------------------------------- concurrent request handlers
\* The application is up with A (older) and B in the table, their files
\* stored, and any set of at most MAX_ACTIVE_TORRENTS of them resident.
InitConc ==
    /\ MAX_ACTIVE_TORRENTS \in 1..MaxCapacity
    /\ \E R \in SUBSET {"A", "B"} :
        /\ Cardinality(R) <= MAX_ACTIVE_TORRENTS
        /\ db = << [NewRow("A", 0) EXCEPT !.active = IF "A" \in R THEN 1 ELSE 0],
                   [NewRow("B", 1) EXCEPT !.active = IF "B" \in R THEN 1 ELSE 0] >>
        /\ torrents_actifs = [h \in R |-> <<h, 0>>]
        /\ session = [x \in {<<h, 0>> : h \in R} |-> ZeroStatus]
    /\ files = [h \in Ids |-> IF h \in {"A", "B"} THEN "torrent" ELSE NoFile]
    /\ downloads = {}
    /\ clock = 1
    /\ running = TRUE
    /\ proc = [p \in Procs |-> IdleProc]
    /\ history = Void
    /\ was_resident = {}
    /\ before = <<>>

\* Every handler slot serves one request.  pause and resume endpoints are
\* plain functions, run on worker threads: their statements interleave with
\* everything.  add_torrents and remove_torrents are coroutines: one of them
\* at a time (LoopFree), interleaved with the threads.
NextConc ==
    \E p \in Procs :
        \/ proc[p].op = "none" /\ Request(p)
        \/ ContinueRequest(p)

SpecConc == InitConc /\ [][NextConc]_vars

\* ------------------------------------------------ the engine transfers data
\* The application is up with A and B in the table (InitConc); torrents are
\* paused, resumed and removed one operation at a time, the application is
\* stopped and started, and between the operations the engine moves data.
NextStats ==
    \/ AllIdle /\ \E h \in Ids : PauseEndpoint(1, h) \/ ResumeGet(1, h)
    \/ AllIdle /\ \E h \in Ids, rf \in BOOLEAN : RemoveGet(1, h, rf)
    \/ AllIdle /\ (StartupList(1) \/ ShutdownCopy(1))
    \/ EnsureList(1)
    \/ PauseGet(1) \/ PauseRemove(1) \/ PausePop(1) \/ PauseDb(1)
    \/ AddFileLoad(1) \/ AddFileSet(1) \/ AddFileStats(1) \/ AddFileAccess(1)
    \/ ResumeCheck(1) \/ ResumeTouch(1) \/ ResumeLoad(1) \/ ResumeSet(1) \/ ResumeAccess(1)
    \/ RemoveHandle(1) \/ RemoveSession(1) \/ RemovePop(1) \/ RemoveFile(1) \/ RemoveDb(1)
    \/ StartupNext(1) \/ ShutdownFlush(1) \/ ShutdownStatusFails(1)
    \/ \E x \in DOMAIN session : EngineProgress(x)

SpecStats == InitConc /\ [][NextStats]_vars

\* ===================================================================== claims
Row(h) == db_get_torrent(db, h)
IsActive(h) == Known(db, h) /\ Row(h).active = 1
ActiveIds == {h \in Ids : IsActive(h)}
Resident == DOMAIN torrents_actifs

\* C1: after any sequence of operations executed one at a time, each run to
\* completion (engine loads may fail), the in-memory active set holds at most
\* MAX_ACTIVE_TORRENTS handles.
C1_CapacityAtRest == AllIdle => Cardinality(Resident) <= MAX_ACTIVE_TORRENTS

\* more torrents were added successfully than the limit allows, so the sweep
\* has evicted
C1_Witness ==
    /\ AllIdle /\ AddsOnly(history)
    /\ Len(history) > MAX_ACTIVE_TORRENTS
    /\ Cardinality(Resident) = MAX_ACTIVE_TORRENTS

\* C2: after every completed add, pause, resume, remove or startup, for every
\* id the row has active = 1 if and only if the id is a key of torrents_actifs
\* (stated as claimed; the code breaks it).
C2_ResidencyMatchesMap ==
    (AllIdle /\ running) => \A h \in Ids : IsActive(h) <=> h \in Resident

\* h is before u in the eviction order: older last_access, ties by rowid
EvictsBefore(h, u) ==
    \/ Row(h).last_access < Row(u).last_access
    \/ Row(h).last_access = Row(u).last_access /\ RowIndex(db, h) <= RowIndex(db, u)

\* ensure_memory_limit is pausing proc[p].target and has not yet written its row
Evicting(p) ==
    /\ proc[p].op \in {"add", "resume", "startup"}
    /\ proc[p].pc \in {"pt_in", "pt_remove", "pt_pop", "pt_db"}

\* C3: every victim of the capacity sweep is the active row with the smallest
\* last_access among the rows active at that moment, ties broken by the
\* earliest row; with a limit of 2, adding A, B, C in this order and nothing
\* else evicts exactly A and leaves B and C resident.
C3_EvictsLeastRecentlyUsed ==
    /\ \A p \in Procs : Evicting(p) =>
          /\ IsActive(proc[p].target)
          /\ \A u \in ActiveIds : EvictsBefore(proc[p].target, u)
    /\ (AllIdle /\ MAX_ACTIVE_TORRENTS = 2 /\ history = <<"A", "B", "C">>) =>
          /\ Resident = {"B", "C"}
          /\ ActiveIds = {"B", "C"}
          /\ Known(db, "A")

C3_Witness == AllIdle /\ MAX_ACTIVE_TORRENTS = 2 /\ history = <<"A", "B", "C">>

\* every handler slot has served its request and returned
AllServed == \A p \in Procs : proc[p].op # "none" /\ proc[p].pc = "idle"

\* C4: for every interleaving of concurrently running add, resume, pause and
\* remove requests, once all of them have completed the active set holds at
\* most MAX_ACTIVE_TORRENTS handles (stated as claimed; the code breaks it).
C4_CapacityAfterConcurrentRequests ==
    AllServed => Cardinality(DOMAIN torrents_actifs) <= MAX_ACTIVE_TORRENTS

\* handler p has read a handle from the map in pause_torrent / remove_torrents
\* and still holds it
HoldsHandle(p) == proc[p].pc \in {"pt_remove", "pt_pop", "rm_remove", "rm_pop"}

\* C5: a concurrent pause(id) and remove(id) on one resident id never both
\* read the same handle from the map, so session.remove_torrent is invoked at
\* most once for a handle (stated as claimed; the code breaks it).
C5_SameIdSerialized ==
    \A p, q \in Procs :
        ( /\ proc[p].op = "pause" /\ proc[q].op = "remove"
          /\ proc[p].info_hash = proc[q].info_hash
          /\ HoldsHandle(p) /\ HoldsHandle(q) )
        => proc[p].handle # proc[q].handle

SeqSet(q) == {q[i] : i \in 1..Len(q)}
RowIds(d) == [i \in 1..Len(d) |-> d[i].info_hash]

\* startup_event has gone through all of active_hashes
StartupDone(p) == proc[p].op = "startup" /\ proc[p].pc = "s_loop" /\ proc[p].todo = <<>>

\* the hypotheses of the restart round trip: every active row had a handle at
\* shutdown and has its .torrent file, at most MAX_ACTIVE_TORRENTS rows are
\* active, no load failed
RoundTripCase(p) ==
    /\ StartupDone(p)
    /\ SeqSet(proc[p].active_hashes) \subseteq was_resident
    /\ \A h \in SeqSet(proc[p].active_hashes) : files[h] # NoFile
    /\ Len(proc[p].active_hashes) <= MAX_ACTIVE_TORRENTS
    /\ ~proc[p].load_failed

\* C6: restart round trip.  Under the hypotheses above, shutdown followed by
\* startup keeps the ids of the table and their active flags, and the
\* resident ids after startup are the ids resident before shutdown.
C6_RestartRoundTrip ==
    [][ /\ (proc'[1].op \in {"shutdown", "startup"} /\ proc'[1] # proc[1])
            => RowIds(db') = RowIds(db)
        /\ (proc'[1].op = "shutdown" /\ proc'[1] # proc[1]) => ActiveIds' = ActiveIds
        /\ (RoundTripCase(1) =>
                /\ Resident = was_resident
                /\ ActiveIds = SeqSet(proc[1].active_hashes))' ]_vars

C6_Witness ==
    /\ RoundTripCase(1)
    /\ Cardinality(was_resident) = 2
    /\ \E h \in Ids : Known(db, h) /\ ~IsActive(h)

\* rows r and s differ at most in last_access (kept as a rank, so its number
\* is renumbered whenever another row is stamped)
SameButAccess(r, s) == [r EXCEPT !.last_access = 0] = [s EXCEPT !.last_access = 0]

\* C7: startup loads only active rows whose .torrent file is present and never
\* changes the row of an active item whose file is missing: such a row stays
\* active and gets no handle, whatever the limit and the other active rows
\* (stated as claimed; the code breaks it).
C7_MissingFileRowUntouched ==
    [][ \A h \in Ids :
          (proc[1].op = "startup" /\ proc[1].pc # "idle" /\ IsActive(h) /\ files[h] = NoFile)
          => /\ Known(db', h)
             /\ SameButAccess(Row(h)', Row(h))
             /\ h \notin Resident' ]_vars

\* C8: when the engine load fails during add, the caller gets a failure for
\* that item and no row and no .torrent file of the failed add survives
\* (stated as claimed; the code breaks it).
C8_FailedAddLeavesNothing ==
    [][ \A p \in Procs :
          (proc[p].op = "add" /\ proc[p].pc = "atf_load" /\ proc'[p].pc = "idle")
          => /\ proc'[p].response # "success"
             /\ ~Known(db', proc[p].info_hash)
             /\ files'[proc[p].info_hash] = NoFile
             /\ proc[p].info_hash \notin Resident' ]_vars

\* C9: add of a descriptor whose id is already in the table, active or not,
\* answers with a per-item error at once and changes nothing: table, files,
\* map and session are as before, nothing is evicted.
C9_DuplicateAddRejected ==
    [][ \A h \in Ids :
          ( /\ proc[1].pc = "idle" /\ proc'[1] # proc[1]
            /\ proc'[1].op = "add" /\ proc'[1].info_hash = h
            /\ Known(db, h) )
          => /\ proc'[1].pc = "idle"
             /\ proc'[1].response = "error_exists"
             /\ UNCHANGED <<db, files, torrents_actifs, session, downloads>> ]_vars

\* a duplicate of a resident item was rejected while the set was full
C9_Witness ==
    /\ proc[1].pc = "idle" /\ proc[1].op = "add" /\ proc[1].response = "error_exists"
    /\ proc[1].info_hash \in Resident
    /\ Cardinality(Resident) = MAX_ACTIVE_TORRENTS
    /\ \E h \in Ids : Known(db, h) /\ ~IsActive(h)

\* remove_torrents has just reported proc[p].info_hash as removed
Removed(p) == proc[p].pc = "idle" /\ proc[p].op = "remove" /\ proc[p].response = "removed"

\* C10: after remove of a known id, active or not, its row and its .torrent
\* file are gone and it holds no handle; a resume of an id that has no row
\* answers 404 and changes nothing.
C10_RemoveThenResume ==
    [][ /\ (Removed(1) =>
              /\ ~Known(db, proc[1].info_hash)
              /\ files[proc[1].info_hash] = NoFile
              /\ proc[1].info_hash \notin Resident
              /\ LiveOf(proc[1].info_hash) = {})'
        /\ \A h \in Ids :
              ( /\ proc[1].pc = "idle" /\ proc'[1] # proc[1]
                /\ proc'[1].op = "resume" /\ proc'[1].info_hash = h
                /\ ~Known(db, h) )
              => /\ proc'[1].pc = "idle"
                 /\ proc'[1].response = "error_404"
                 /\ UNCHANGED <<db, files, torrents_actifs, session, downloads, clock>>
        /\ \A h \in Ids :
              (history = <<"removed", h>> /\ history' = <<"removed", h, "resume">>)
              => /\ proc'[1].response = "error_404"
                 /\ UNCHANGED <<db, files, torrents_actifs, session, downloads, clock>> ]_vars

\* h was removed, other torrents staying resident, and the resume of h that
\* followed at once was answered 404
C10_Witness ==
    /\ proc[1].pc = "idle" /\ proc[1].op = "resume" /\ proc[1].response = "error_404"
    /\ history = <<"removed", proc[1].info_hash, "resume">>
    /\ Resident # {}

\* resume_torrent of handler p has read the row of its id and the id has no
\* .torrent file
ResumeWithoutFile(p) ==
    /\ proc[p].op = "resume" /\ proc[p].pc = "rs_check"
    /\ files[proc[p].info_hash] = NoFile

\* the resume of handler p ends here with a 404 and nothing is written
FailsNotFound(p) ==
    /\ proc'[p].pc = "idle"
    /\ proc'[p].response = "error_404"
    /\ UNCHANGED <<db, files, torrents_actifs, session, downloads, clock>>

\* C11 as claimed: resume of an id that has a row but no .torrent file fails
\* with 404 and leaves the table, the map and every other item unchanged,
\* without any eviction (the code breaks it for a resident id).
C11_ResumeMissingFileAnyId ==
    [][ \A p \in Procs : (ResumeWithoutFile(p) /\ proc'[p] # proc[p]) => FailsNotFound(p) ]_vars

\* C11 amended: resume of an id that has a row, is not a key of
\* torrents_actifs and has no .torrent file fails with 404 and leaves the
\* table, the map and every other item unchanged, without any eviction.
C11_ResumeMissingFile ==
    [][ \A p \in Procs :
          ( /\ ResumeWithoutFile(p) /\ proc'[p] # proc[p]
            /\ proc[p].info_hash \notin DOMAIN torrents_actifs )
          => FailsNotFound(p) ]_vars

\* a resume was answered 404 for an id that has a row flagged active and no
\* file, while another item is resident
C11_Witness ==
    /\ proc[1].pc = "idle" /\ proc[1].op = "resume" /\ proc[1].response = "error_404"
    /\ IsActive(proc[1].info_hash)
    /\ files[proc[1].info_hash] = NoFile
    /\ Resident # {}

\* C12: pause is idempotent: a pause of h that directly follows a pause of h
\* answers with success without running pause_torrent, and leaves the table
\* (active flag, last_access, counters), the files and the map as the first
\* pause left them.
C12_PauseIdempotent ==
    [][ \A h \in Ids :
          ( /\ proc[1].pc = "idle" /\ proc[1].op = "pause" /\ proc[1].info_hash = h
            /\ proc[1].response \in {"ok", "already_inactive"}
            /\ proc'[1].op = "pause" /\ proc'[1].info_hash = h
            /\ (proc'[1] # proc[1] \/ history' = <<"paused", h, "pause">>) )
          => /\ proc'[1].pc = "idle"
             /\ proc'[1].response = "already_inactive"
             /\ UNCHANGED <<db, files, torrents_actifs, session, downloads, clock>> ]_vars

\* a resident h was paused and the pause of h that followed was a no-op
C12_Witness ==
    /\ proc[1].pc = "idle" /\ proc[1].op = "pause" /\ proc[1].response = "already_inactive"
    /\ history = <<"paused", proc[1].info_hash, "pause">>
    /\ Known(db, proc[1].info_hash) /\ ~IsActive(proc[1].info_hash)
    /\ proc[1].info_hash \notin Resident
    /\ Resident # {}

\* the resume of handler p returns in this step; when it began the map held
\* MAX_ACTIVE_TORRENTS handles and the row of its id was inactive and not
\* resident; its .torrent file was there and the engine loaded it
ResumeAfterEvict(p) ==
    /\ proc[p].op = "resume" /\ proc[p].pc # "idle" /\ proc'[p].pc = "idle"
    /\ Len(before) = MAX_ACTIVE_TORRENTS
    /\ proc[p].record.active = 0
    /\ proc[p].info_hash \notin SeqSet(before)
    /\ files[proc[p].info_hash] # NoFile
    /\ ~proc[p].load_failed

\* C13: resume after evict: with MAX_ACTIVE_TORRENTS handles in the map and A
\* inactive, resume(A) succeeds and afterwards A is resident (not the victim
\* of its own admission), the resident that was the oldest before the resume
\* is inactive and not resident, and the map holds exactly
\* MAX_ACTIVE_TORRENTS handles (stated as claimed; the code breaks it).
C13_ResumeAfterEvict ==
    [][ \A p \in Procs : ResumeAfterEvict(p) =>
          \A a \in {proc[p].info_hash}, oldest \in {Head(before)} :
              /\ proc'[p].response = "ok"
              /\ a \in Resident' /\ IsActive(a)'
              /\ oldest \notin Resident' /\ ~IsActive(oldest)'
              /\ Cardinality(Resident') = MAX_ACTIVE_TORRENTS ]_vars

\* C14: for an item that stays active, the total_uploaded and
\* total_downloaded stored in its row never decrease from one write to the
\* next, also across a shutdown and startup in which the item is loaded again
\* (stated as claimed; the code breaks it).
C14_StoredCountersNeverDecrease ==
    [][ \A h \in Ids : (IsActive(h) /\ IsActive(h)') =>
          /\ Row(h)'.total_uploaded >= Row(h).total_uploaded
          /\ Row(h)'.total_downloaded >= Row(h).total_downloaded ]_vars

\* C15: in every step of add, resume and startup, a row gets active = 1 only
\* when the engine already holds the torrent of that id: the flag is written
\* after the load, never before (stated as claimed; the code breaks it).
C15_ActiveFlagAfterLoad ==
    [][ \A h \in Ids : (~IsActive(h) /\ IsActive(h)') => LiveOf(h)' # {} ]_vars

\* C16: the eviction order survives a restart: two items that were resident
\* when shutdown began and are both loaded again by startup_event are, once
\* startup has gone through its list, in the same last_access order as
\* before, so the next victim is the same (stated as claimed; the code breaks
\* it).
C16_OrderSurvivesRestart ==
    StartupDone(1) =>
        \A i, j \in 1..Len(before) :
            (i < j /\ before[i] \in Resident /\ before[j] \in Resident)
            => EvictsBefore(before[i], before[j])

\* C17: ensure_memory_limit evicts nothing when the map holds at most
\* MAX_ACTIVE_TORRENTS handles, rows flagged active without a handle
\* included: the sweep then picks no victim, so it unloads no handle and
\* changes no active flag (stated as claimed; the code breaks it).
C17_NoEvictionWithinLimit ==
    [][ \A p \in Procs :
          ( /\ proc[p].pc = "eml_list" /\ proc'[p] # proc[p]
            /\ Cardinality(DOMAIN torrents_actifs) <= MAX_ACTIVE_TORRENTS )
          => proc'[p].pc # "pt_in" ]_vars

\* shutdown_event ends in this step
ShutdownEnds(p) ==
    proc[p].op = "shutdown" /\ proc[p].pc = "sd_loop" /\ proc'[p].pc = "idle"

\* C18: at shutdown each resident item is flushed independently: when
\* handle.status() fails for one resident handle, the counters of every other
\* resident handle are still in the table when the process has ended (stated
\* as claimed; the code breaks it).
C18_FlushSkipsOnlyFailingItem ==
    [][ ShutdownEnds(1) =>
          \A h \in DOMAIN torrents_actifs :
              \/ proc'[1].response = "failed" /\ h = Head(proc[1].todo)
              \/ /\ Row(h)'.total_uploaded = session[torrents_actifs[h]].total_upload
                 /\ Row(h)'.total_downloaded = session[torrents_actifs[h]].total_done ]_vars

\* pause_torrent is running in handler p (for the pause endpoint or for an
\* eviction by ensure_memory_limit)
Pausing(p) == proc[p].pc \in {"pt_in", "pt_remove", "pt_pop", "pt_db"}

\* C19: eviction and pause of an id unload its handle without deleting the
\* payload, take the id out of the map and set its row inactive; the row
\* stays with its name and counters, the .torrent file stays; payload is
\* deleted only by a remove with remove_files.
C19_PauseKeepsEverythingButResidency ==
    [][ /\ \A p \in Procs : (Pausing(p) /\ proc'[p] # proc[p]) =>
              /\ files' = files /\ downloads' = downloads
              /\ proc[p].pc = "pt_remove" => proc[p].handle \notin DOMAIN session'
              /\ proc[p].pc = "pt_db" =>
                    \A t \in {proc[p].target} :
                        /\ t \notin Resident' /\ LiveOf(t)' = {}
                        /\ Known(db', t) /\ ~IsActive(t)'
                        /\ Row(t)'.name = Row(t).name
                        /\ Row(t)'.total_uploaded = Row(t).total_uploaded
                        /\ Row(t)'.total_downloaded = Row(t).total_downloaded
        /\ ~(downloads \subseteq downloads') =>
              \E p \in Procs : proc[p].op = "remove" /\ proc[p].remove_files ]_vars

\* an eviction has unloaded a torrent whose payload is on disk and is about to
\* write its row: payload and .torrent file are still there
C19_Witness ==
    \E p \in Procs :
        /\ proc[p].op = "resume" /\ proc[p].pc = "pt_db"
        /\ proc[p].target \in downloads
        /\ files[proc[p].target] # NoFile
        /\ proc[p].target \notin Resident /\ LiveOf(proc[p].target) = {}

\* C20: during add the .torrent file is written before the row is inserted:
\* in every intermediate state of add_torrents for a new id, the row of the id
\* exists only if its .torrent file is stored, and once the write has been
\* done the file is there.
C20_FileBeforeRow ==
    \A p \in Procs :
        (proc[p].op = "add" /\ proc[p].pc # "idle") =>
            /\ Known(db, proc[p].info_hash) => files[proc[p].info_hash] # NoFile
            /\ proc[p].pc # "add_write" => files[proc[p].info_hash] # NoFile

\* add_torrents has inserted the row of a new id and not yet loaded it
C20_Witness ==
    /\ proc[1].op = "add" /\ proc[1].pc = "atf_load"
    /\ Known(db, proc[1].info_hash)
    /\ files[proc[1].info_hash] # NoFile

\* remove_torrents is running in handler p for an id that had its row and its
\* .torrent file when the step began
RemovingBacked(p) ==
    /\ proc[p].op = "remove" /\ proc[p].pc # "idle"
    /\ Known(db, proc[p].info_hash)
    /\ files[proc[p].info_hash] # NoFile

\* C21: no step of remove_torrents leads to a state in which the .torrent
\* file of the id is deleted while the row of the id is still in the table:
\* a row that has its file keeps it for as long as it exists (stated as
\* claimed; the code breaks it).
C21_RemoveKeepsRowBacked ==
    [][ \A p \in Procs :
          (RemovingBacked(p) /\ Known(db', proc[p].info_hash))
          => files'[proc[p].info_hash] # NoFile ]_vars

\* handlers p and q have served a resume and a remove of the same id h and
\* both have returned
ResumeAndRemoveDone(p, q, h) ==
    /\ proc[p].op = "resume" /\ proc[p].pc = "idle" /\ proc[p].info_hash = h
    /\ proc[q].op = "remove" /\ proc[q].pc = "idle" /\ proc[q].info_hash = h

\* h had a row and no handle when the two requests arrived: it is one of the
\* two rows SpecConc starts with, and the other one, which neither request
\* names and nothing loads, is resident under a limit of 1
WasInactive(h) ==
    /\ h \in {"A", "B"}
    /\ MAX_ACTIVE_TORRENTS = 1
    /\ \E u \in Resident : u # h

\* C22: for every interleaving of a concurrent resume(id) and remove(id) on
\* one inactive id, when both have returned the id is a key of the map only
\* if its row is still in the table, and if remove reported the id removed
\* the id has no handle and no row (stated as claimed; the code breaks it).
C22_NoOrphanHandle ==
    \A p, q \in Procs, h \in Ids :
        (ResumeAndRemoveDone(p, q, h) /\ WasInactive(h)) =>
            /\ h \in Resident => Known(db, h)
            /\ proc[q].response = "removed" => (h \notin Resident /\ ~Known(db, h))

\* C23: after any sequence of operations executed one at a time (engine loads
\* may fail), every key of torrents_actifs has a row in the table with
\* active = 1: no handle is held for an id without a row or with an inactive
\* row.
C23_HandleImpliesActiveRow ==
    AllIdle => \A h \in Resident : IsActive(h)

\* at rest a torrent is resident while another row was set inactive by a
\* pause or an eviction and a third is flagged active without a handle (its
\* load failed): the converse of C23 does not hold there
C23_Witness ==
    /\ AllIdle /\ running
    /\ Resident # {}
    /\ \E u \in Ids : Known(db, u) /\ ~IsActive(u)
    /\ \E v \in Ids : IsActive(v) /\ v \notin Resident

====
